---- MODULE Spec2Model ----
(***************************************************************************)
(* A model of the bridging engine of go-discord-irc (package bridge).      *)
(*                                                                         *)
(* Strings of the program whose characters the code inspects (IRC channel  *)
(* names, mapping keys, raw IRC lines) are sequences of one-character      *)
(* strings, so that strings.Split, strings.Join and strings.EqualFold are  *)
(* computed and not assumed.  Discord channel ids and user ids are only    *)
(* ever compared for equality by the code and are plain strings.           *)
(***************************************************************************)
EXTENDS Integers, Sequences, FiniteSets, TLC

VARIABLES
    phase,          \* "new" before bridge.New ran load, "running" after, "failed" when New returned an error
    mappings,       \* Bridge.mappings: sequence of Mapping; the empty sequence is Go's nil slice
    ircChannelKeys, \* Bridge.ircChannelKeys: set of [channel, key] pairs, one per keyed channel
    arg,            \* the inMappings table of the most recent SetChannelMappings call
    err,            \* the error the most recent SetChannelMappings call returned ("nil" when none)
    ircOut,         \* the raw IRC lines the most recent SetChannelMappings call sent through the listener
    puppeteerSource,    \* which of the two definitions of IRCPuppeteer in the repository is linked
    openPc,             \* how far Bridge.Open has got
    caps,               \* the capability tables of the IRC connection after its handshake
    usernameDecoration, \* IRCPuppeteer.usernameDecoration
    listenerPc,         \* the IRC listener thread: "idle", or "blocked" in a send on discordMessagesChan
    listenerMsg,        \* the IRCMessage the blocked listener thread is sending
    ircSeen,            \* how many IRC events the listener has been given
    handoff,            \* the goroutines of OnPrivateMessage blocked in their send on discordMessagesChan
    discordSeen,        \* how many Discord events have been submitted
    discordInbox,       \* the senders blocked in their send on discordMessageEventsChan
    loopPc,             \* Bridge.loop: "select", "system_send", "teardown" or "stopped"
    dispatched,         \* the event the dispatcher received most recently, with what its handler sent
    received,           \* the arrival numbers of the IRC channel messages, in the order the dispatcher received them
    inflight,           \* the send-as goroutines whose call has not returned
    closerPc,           \* the caller of Bridge.Close
    doneClosed,         \* whether b.done is closed
    closed,             \* the collaborators the loop has closed
    failed,             \* the arrival numbers of the send-as calls that returned an error (each one logged)
    config,             \* the Config the bridge was created with: the filter lists of the file, and as decoded
    pending,            \* a SetChannelMappings call between its parsing and its last assignment
    observed,           \* what a reader on another goroutine last saw of the mapping store
    applied             \* a text function called on its own: its input and what it returned

storeVars == <<phase, mappings, ircChannelKeys, arg, err>>

routerVars ==
    <<puppeteerSource, openPc, caps, usernameDecoration, listenerPc, listenerMsg, ircSeen, handoff,
      discordSeen, discordInbox, loopPc, dispatched, received, inflight,
      closerPc, doneClosed, closed, failed, config>>

reloadVars == <<pending, observed>>

vars == <<storeVars, ircOut, routerVars, reloadVars, applied>>

(***************************************************************************)
(* Bounds and input alphabets                                              *)
(***************************************************************************)
MaxEntries == 2

\* Keys of the channel_mappings table: "#a", "#A", "#b", "#b k" (keyed), "#a k x" (two spaces)
EntryKeys ==
    { <<"#", "a">>, <<"#", "A">>, <<"#", "b">>,
      <<"#", "b", " ", "k">>, <<"#", "a", " ", "k", " ", "x">> }

DiscordIDs == {"X", "Y"}

\* A Go map[string]string: one value for each key of a set of at most MaxEntries keys
InMappingTables ==
    UNION { { { [irc |-> k, discord |-> f[k]] : k \in K } : f \in [K -> DiscordIDs] } :
            K \in { S \in SUBSET EntryKeys : Cardinality(S) <= MaxEntries } }

\* Go iterates a map in an unspecified order: every enumeration of the table
IterationOrders(t) ==
    { o \in [1..Cardinality(t) -> t] : \A i, j \in 1..Cardinality(t) : i # j => o[i] # o[j] }

(***************************************************************************)
(* Library functions of the Go runtime, computed as Go computes them       *)
(***************************************************************************)
RECURSIVE SplitAcc(_, _, _, _)
SplitAcc(s, sep, cur, acc) ==
    IF s = <<>> THEN Append(acc, cur)
    ELSE IF Head(s) = sep THEN SplitAcc(Tail(s), sep, <<>>, Append(acc, cur))
    ELSE SplitAcc(Tail(s), sep, Append(cur, Head(s)), acc)

\* strings.Split(s, sep) for a one-character separator
Split(s, sep) == SplitAcc(s, sep, <<>>, <<>>)

RECURSIVE Join(_, _)
\* strings.Join(elems, sep)
Join(elems, sep) ==
    IF elems = <<>> THEN <<>>
    ELSE IF Len(elems) = 1 THEN elems[1]
    ELSE elems[1] \o sep \o Join(Tail(elems), sep)

\* Unicode simple case folding, on the letters of the alphabet used here
Lower(c) ==
    CASE c = "A" -> "a"
      [] c = "B" -> "b"
      [] c = "E" -> "e"
      [] c = "S" -> "s"
      [] OTHER -> c

\* strings.EqualFold(s, t)
EqualFold(s, t) ==
    /\ Len(s) = Len(t)
    /\ \A i \in 1..Len(s) : Lower(s[i]) = Lower(t[i])

\* no call of the Discord API
NoCallYet == [api |-> "none", channel |-> "", username |-> <<>>, avatar |-> <<>>,
              content |-> <<>>, mentions |-> {}]

\* the zero IRCMessage, the zero DiscordMessage, and the dispatcher before it has received anything
NoMessage == [IRCChannel |-> <<>>, Username |-> <<>>, Message |-> <<>>]
NoDiscordMessage ==
    [ChannelID |-> "", AuthorID |-> "", Username |-> <<>>, Discriminator |-> <<>>,
     Content |-> <<>>, IsAction |-> FALSE]
NoEvent == [src |-> "none", seq |-> 0, irc |-> NoMessage, discord |-> NoDiscordMessage,
            lines |-> <<>>, call |-> NoCallYet]

\* no SetChannelMappings call is under way, and no reader has looked at the store yet
NoPending == [mappings |-> <<>>, ircChannelKeys |-> {}, oldMappings |-> <<>>]
\* no text function has been called on its own
NoApplication == [fn |-> "none", returned |-> FALSE, input |-> <<>>, wrapped |-> <<>>,
                  output |-> <<>>, again |-> <<>>]
NoObservation == [mappings |-> <<>>, ircChannelKeys |-> {}, during |-> "never"]

(***************************************************************************)
(* LoadConfigInto: the filter lists of the configuration file              *)
(***************************************************************************)
\* the filter lists of a configuration file: glob patterns as JSON strings
NoFilters == [IRCIgnores |-> <<>>, IRCFilteredMessages |-> <<>>, DiscordFilteredMessages |-> <<>>,
              ChannelMappings |-> {}]
ConfigFiles ==
    { [NoFilters EXCEPT !.DiscordFilteredMessages = << <<"*", "a", "*">> >>],
      [NoFilters EXCEPT !.IRCIgnores = << <<"a", "l", "!", "*">> >>],
      [NoFilters EXCEPT !.IRCFilteredMessages = << <<"h", "*">> >>] }

\* the zero JsonGlob: its g is the nil interface
NilGlob == "nil"
ZeroJsonGlob == [g |-> NilGlob]

\* JsonGlob.UnmarshalJSON(data) called on the element s of the slice being decoded: the
\* receiver is a copy of s, so the compiled filter is stored in the copy and s is as before
UnmarshalJSON(s, text) ==
    LET receiver == [s EXCEPT !.g = text]
    IN  s

\* encoding/json decoding a JSON array into a []JsonGlob
DecodeGlobs(texts) == [i \in 1..Len(texts) |-> UnmarshalJSON(ZeroJsonGlob, texts[i])]

\* LoadConfigInto: the Config after decoding the file; file keeps the text of the file
LoadConfigInto(file) ==
    [file |-> file,
     ChannelMappings |-> file.ChannelMappings,
     IRCIgnores |-> DecodeGlobs(file.IRCIgnores),
     IRCFilteredMessages |-> DecodeGlobs(file.IRCFilteredMessages),
     DiscordFilteredMessages |-> DecodeGlobs(file.DiscordFilteredMessages)]


\* no goroutine of the process has panicked without being recovered
Alive == loopPc # "crashed"

(***************************************************************************)
(* Bridge.SetChannelMappings                                               *)
(***************************************************************************)
ErrDuplicate == "channel_mappings contains duplicate entries"

\* ircChannelKeys[ircChannel] = key
KeyPut(keys, channel, key) ==
    { k \in keys : k.channel # channel } \cup { [channel |-> channel, key |-> key] }

\* a skip test that lets a key with two spaces through
IsInvalidEntry_TwoSpacesAccepted(parts) == parts # 1 /\ parts > 3

\* the test that skips an entry: more than one space in the key
IsInvalidEntry(parts) == parts # 1 /\ parts > 2

RECURSIVE ParseEntries(_, _, _)
\* the parsing loop over inMappings, in the iteration order ord
ParseEntries(ord, mps, keys) ==
    IF ord = <<>> THEN [mappings |-> mps, ircChannelKeys |-> keys]
    ELSE LET irc == Head(ord).irc
             discord == Head(ord).discord
             ircParts == Split(irc, " ")
             ircChannel == ircParts[1]
             parts == Len(ircParts)
         IN  IF IsInvalidEntry(parts)
             THEN ParseEntries(Tail(ord), mps, keys)
             ELSE ParseEntries(
                    Tail(ord),
                    Append(mps, [DiscordChannel |-> discord, IRCChannel |-> ircChannel]),
                    IF parts = 2 THEN KeyPut(keys, ircChannel, ircParts[2]) ELSE keys)

\* a duplicate check that compares the Discord side only
HasDuplicate_DiscordOnly(mps) ==
    \E i, j \in 1..Len(mps) :
        /\ mps[i].DiscordChannel = mps[j].DiscordChannel
        /\ i # j

\* the duplicate check
HasDuplicate(mps) ==
    \E i, j \in 1..Len(mps) :
        /\ (mps[i].DiscordChannel = mps[j].DiscordChannel) \/ (mps[i].IRCChannel = mps[j].IRCChannel)
        /\ i # j

\* the items of xs that are not in ys, in the order of xs (positive and negative difference)
Difference(xs, ys) ==
    SelectSeq(xs, LAMBDA m : \A j \in 1..Len(ys) : ys[j] # m)

\* parting every removed mapping, reassigned or not
RemovedToPart_All(removedMappings, newMappings) == removedMappings

\* the removed mappings whose IRC channel is not among the newly added mappings
RemovedToPart(removedMappings, newMappings) ==
    SelectSeq(removedMappings,
              LAMBDA m : \A j \in 1..Len(newMappings) : newMappings[j].IRCChannel # m.IRCChannel)

IRCChannelsOf(mps) == [i \in 1..Len(mps) |-> mps[i].IRCChannel]

PART == <<"P", "A", "R", "T", " ">>
JOIN == <<"J", "O", "I", "N", " ">>

\* the two raw lines a mid-run change of mappings sends
ReconfigureLines(oldMappings, mps) ==
    LET newMappings == Difference(mps, oldMappings)
        removedMappings == Difference(oldMappings, mps)
        rmChannels == IRCChannelsOf(RemovedToPart(removedMappings, newMappings))
        joinChannels == IRCChannelsOf(newMappings)
    IN  << PART \o Join(rmChannels, <<",">>), JOIN \o Join(joinChannels, <<",">>) >>

\* the whole call, for the table iterated in the order ord
SetChannelMappings(ord) ==
    LET parsed == ParseEntries(ord, <<>>, {})
    IN  /\ arg' = { ord[i] : i \in 1..Len(ord) }
        /\ IF HasDuplicate(parsed.mappings)
           THEN /\ err' = ErrDuplicate
                /\ ircOut' = <<>>
                /\ UNCHANGED <<mappings, ircChannelKeys>>
           ELSE /\ err' = "nil"
                /\ mappings' = parsed.mappings
                /\ ircChannelKeys' = parsed.ircChannelKeys
                /\ ircOut' = IF mappings # <<>>
                             THEN ReconfigureLines(mappings, parsed.mappings)
                             ELSE <<>>

\* bridge.New -> Bridge.load: the first call; an error makes New fail
Load ==
    /\ phase = "new"
    /\ \E t \in InMappingTables : \E ord \in IterationOrders(t) : SetChannelMappings(ord)
    /\ phase' = IF err' = "nil" THEN "running" ELSE "failed"
    /\ UNCHANGED <<routerVars, reloadVars, applied>>

\* a later call of SetChannelMappings on the running bridge
Reconfigure ==
    /\ phase = "running"
    /\ \E t \in InMappingTables : \E ord \in IterationOrders(t) : SetChannelMappings(ord)
    /\ UNCHANGED phase
    /\ UNCHANGED <<routerVars, reloadVars, applied>>

\* the fields of the Bridge, its puppeteer and its goroutines as bridge.New creates them
Created ==
    /\ openPc = "created"
    /\ caps = [acknowledged |-> FALSE, reserved |-> <<>>]
    /\ usernameDecoration = <<>>
    /\ listenerPc = "idle"
    /\ listenerMsg = NoMessage
    /\ ircSeen = 0
    /\ handoff = {}
    /\ discordSeen = 0
    /\ discordInbox = {}
    /\ loopPc = "select"
    /\ dispatched = NoEvent
    /\ received = <<>>
    /\ inflight = {}
    /\ closerPc = "idle"
    /\ doneClosed = FALSE
    /\ closed = {}
    /\ failed = {}
    /\ pending = NoPending
    /\ observed = NoObservation
    /\ applied = NoApplication

InitStore ==
    /\ phase = "new"
    /\ mappings = <<>>
    /\ ircChannelKeys = {}
    /\ arg = {}
    /\ err = "nil"
    /\ ircOut = <<>>
    /\ puppeteerSource = "part_000"
    /\ config = LoadConfigInto(NoFilters)
    /\ Created

NextStore == Load \/ Reconfigure

SpecStore == InitStore /\ [][NextStore]_vars

(***************************************************************************)
(* Vocabulary of the properties, defined without the operators above       *)
(***************************************************************************)
Range(f) == { f[i] : i \in DOMAIN f }

SpaceCount(s) == Cardinality({ i \in 1..Len(s) : s[i] = " " })

\* the characters of a key before its first space, and those after it
FirstSpace(s) == IF SpaceCount(s) = 0 THEN Len(s) + 1
                 ELSE CHOOSE i \in 1..Len(s) : s[i] = " " /\ \A j \in 1..(i - 1) : s[j] # " "
ChannelPart(s) == SubSeq(s, 1, FirstSpace(s) - 1)
KeyPart(s) == SubSeq(s, FirstSpace(s) + 1, Len(s))

\* the entries of a table that the parser accepts: at most one space in the key
Accepted(t) == { e \in t : SpaceCount(e.irc) <= 1 }

\* two accepted entries share an IRC channel or share a Discord channel id
SharesChannel(t) ==
    \E e1, e2 \in Accepted(t) :
        /\ e1 # e2
        /\ ChannelPart(e1.irc) = ChannelPart(e2.irc) \/ e1.discord = e2.discord

ExpectedMappings(t) ==
    { [DiscordChannel |-> e.discord, IRCChannel |-> ChannelPart(e.irc)] : e \in Accepted(t) }

ExpectedKeys(t) ==
    { [channel |-> ChannelPart(e.irc), key |-> KeyPart(e.irc)] :
        e \in { a \in Accepted(t) : SpaceCount(a.irc) = 1 } }

\* what an IRC server reads in a raw PART or JOIN line: the command and its comma-separated targets
IsCommand(line, cmd) == Len(line) >= Len(cmd) /\ SubSeq(line, 1, Len(cmd)) = cmd
Targets(line) == { c \in Range(Split(SubSeq(line, 6, Len(line)), ",")) : c # <<>> }
Named(lines, cmd) == UNION { Targets(lines[i]) : i \in { j \in 1..Len(lines) : IsCommand(lines[j], cmd) } }

(***************************************************************************)
(* Claims on the mapping store (SpecStore: every step is one call of       *)
(* SetChannelMappings, the first being the load in bridge.New)             *)
(***************************************************************************)

\* C1: a call whose table has two accepted entries sharing an IRC channel or a
\* Discord channel id returns the duplicate-mapping error, leaves the mapping set
\* and the channel-key table as they were, and sends no PART and no JOIN.
C1_DuplicateRejectedAtomically ==
    [][ SharesChannel(arg') =>
            /\ err' = ErrDuplicate
            /\ mappings' = mappings
            /\ ircChannelKeys' = ircChannelKeys
            /\ Named(ircOut', PART) = {} /\ Named(ircOut', JOIN) = {}
            /\ ircOut' = <<>> ]_vars

\* a running bridge with a keyed store was handed a table naming one IRC channel twice
C1_Witness ==
    /\ phase = "running"
    /\ err = ErrDuplicate
    /\ mappings # <<>> /\ ircChannelKeys # {}
    /\ \E e1, e2 \in Accepted(arg) : e1 # e2 /\ ChannelPart(e1.irc) = ChannelPart(e2.irc)
                                             /\ e1.discord # e2.discord

\* Bridge.GetMappingByIRC / Bridge.GetMappingByDiscord, on a store mps
NoMapping == [DiscordChannel |-> "", IRCChannel |-> <<>>]

RECURSIVE GetMappingByIRCIn(_, _)
GetMappingByIRCIn(mps, channel) ==
    IF mps = <<>> THEN [mapping |-> NoMapping, ok |-> FALSE]
    ELSE IF EqualFold(Head(mps).IRCChannel, channel) THEN [mapping |-> Head(mps), ok |-> TRUE]
    ELSE GetMappingByIRCIn(Tail(mps), channel)

RECURSIVE GetMappingByDiscordIn(_, _)
GetMappingByDiscordIn(mps, channel) ==
    IF mps = <<>> THEN [mapping |-> NoMapping, ok |-> FALSE]
    ELSE IF Head(mps).DiscordChannel = channel THEN [mapping |-> Head(mps), ok |-> TRUE]
    ELSE GetMappingByDiscordIn(Tail(mps), channel)

GetMappingByIRC(channel) == GetMappingByIRCIn(mappings, channel)
GetMappingByDiscord(channel) == GetMappingByDiscordIn(mappings, channel)

\* C2: after a successful call the two lookups are mutual inverses: for every stored
\* mapping m, GetMappingByIRC(m.IRCChannel) returns m and GetMappingByDiscord(m.DiscordChannel)
\* returns m.
C2_LookupsAreInverses ==
    (phase = "running" /\ err = "nil" /\ ~SharesChannel(arg)) =>
        \A i \in 1..Len(mappings) :
            /\ GetMappingByIRC(mappings[i].IRCChannel) = [mapping |-> mappings[i], ok |-> TRUE]
            /\ GetMappingByDiscord(mappings[i].DiscordChannel) = [mapping |-> mappings[i], ok |-> TRUE]

\* C3: in every reachable state no two stored mappings have IRC channels equal under
\* case-insensitive comparison, and no two have the same Discord channel id.
C3_StoredChannelsUnique ==
    \A i, j \in 1..Len(mappings) :
        i # j => /\ ~EqualFold(mappings[i].IRCChannel, mappings[j].IRCChannel)
                 /\ mappings[i].DiscordChannel # mappings[j].DiscordChannel

\* C4: on a successful call that is not the first load, from the set O to the set N,
\* PART names exactly the IRC channels of the pairs in O and not in N, JOIN names exactly
\* the IRC channels of the pairs in N and not in O, and the IRC channel of a pair in both
\* is named in neither.
C4_PartJoinAreTheDifferences ==
    [][ (phase = "running" /\ err' = "nil") =>
            LET O == Range(mappings)
                N == Range(mappings')
            IN  /\ Named(ircOut', PART) = { m.IRCChannel : m \in O \ N }
                /\ Named(ircOut', JOIN) = { m.IRCChannel : m \in N \ O }
                /\ \A m \in O \cap N :
                      m.IRCChannel \notin Named(ircOut', PART) \cup Named(ircOut', JOIN) ]_vars

\* C5: on a successful reconfiguration, an IRC channel in a removed pair and also in a
\* newly added pair is never named in the PART of that reconfiguration.
C5_ReassignedChannelNotParted ==
    [][ (phase = "running" /\ err' = "nil") =>
            LET O == Range(mappings)
                N == Range(mappings')
            IN  \A m \in O \ N : \A n \in N \ O :
                    n.IRCChannel = m.IRCChannel => m.IRCChannel \notin Named(ircOut', PART) ]_vars

\* the state a reassignment of "#a" from one Discord channel to the other leaves:
\* the PART line names nothing and the JOIN line names "#a", which only the old set
\* {"#a" -> X} produces for the new set {"#a" -> Y}
C5_Witness ==
    /\ phase = "running" /\ err = "nil"
    /\ mappings = << [DiscordChannel |-> "Y", IRCChannel |-> <<"#", "a">>] >>
    /\ ircOut = << PART, JOIN \o <<"#", "a">> >>

\* C6: an entry whose key has more than one space is skipped without failing the call:
\* it adds no mapping and no channel key, takes no part in duplicate detection, and every
\* valid entry of the call is stored.
C6_InvalidEntrySkipped ==
    phase # "new" =>
        /\ err = ErrDuplicate <=> SharesChannel(arg)
        /\ err = "nil" => /\ Range(mappings) = ExpectedMappings(arg)
                          /\ Len(mappings) = Cardinality(Accepted(arg))
                          /\ ircChannelKeys = ExpectedKeys(arg)

\* a successful call whose table held a two-space key for "#a" next to the valid entry "#a"
C6_Witness ==
    /\ phase = "running" /\ err = "nil"
    /\ \E bad, good \in arg :
          /\ SpaceCount(bad.irc) > 1 /\ SpaceCount(good.irc) <= 1
          /\ ChannelPart(bad.irc) = ChannelPart(good.irc)
          /\ bad.discord = good.discord
    /\ mappings # <<>>

(***************************************************************************)
(* Text.  A character is a one-element string; three characters outside    *)
(* ASCII are written as tokens: "e'" is U+00E9, "(red)" is U+1F534 and      *)
(* "ZWSP" is U+200B.                                                       *)
(***************************************************************************)
ZWSP == "ZWSP"

Letters == {"a", "b", "d", "e", "h", "i", "j", "k", "l", "m", "n", "o", "s", "v", "x", "A", "B", "E", "S"}
Digits == {"0", "1", "2", "4"}

\* the number of bytes of a character in UTF-8
ByteLen(c) ==
    CASE c = "e'" -> 2
      [] c = ZWSP -> 3
      [] c = "(red)" -> 4
      [] OTHER -> 1

RECURSIVE Flatten(_)
Flatten(ss) == IF ss = <<>> THEN <<>> ELSE Head(ss) \o Flatten(Tail(ss))

\* len(s): the length of a Go string in bytes
RECURSIVE ByteLength(_)
ByteLength(s) == IF s = <<>> THEN 0 ELSE ByteLen(Head(s)) + ByteLength(Tail(s))

\* strings.HasSuffix(s, suffix)
HasSuffix(s, suffix) ==
    /\ Len(s) >= Len(suffix)
    /\ SubSeq(s, Len(s) - Len(suffix) + 1, Len(s)) = suffix

(***************************************************************************)
(* IRCPuppeteer                                                            *)
(***************************************************************************)
\* unidecode.Unidecode: the closest ASCII text of each character
UnidecodeChar(c) ==
    CASE c = "e'" -> <<"e">>
      [] c = ZWSP -> <<>>
      [] c = "(red)" -> <<>>
      [] OTHER -> <<c>>
Unidecode(s) == Flatten([i \in 1..Len(s) |-> UnidecodeChar(s[i])])

\* package irc/nick: the characters a nickname may hold
IsDigit(c) == c \in Digits
IsNickChar(c) == c \in Letters \cup Digits \cup {"-", "_", "[", "]", "^", "{", "}", "|"}
IsFakeNickChar(c) == c = "~"

\* the bytes of nick, each bad byte replaced by a space
ReplaceBadBytes(nick) ==
    Flatten([i \in 1..Len(nick) |->
                IF ~IsNickChar(nick[i]) \/ IsFakeNickChar(nick[i])
                THEN [j \in 1..ByteLen(nick[i]) |-> " "]
                ELSE <<nick[i]>>])

RECURSIVE CollapseSpaces(_)
\* regexp ` +` replaced by a single underscore
CollapseSpaces(s) ==
    IF s = <<>> THEN <<>>
    ELSE IF Head(s) # " " THEN <<Head(s)>> \o CollapseSpaces(Tail(s))
    ELSE IF Len(s) > 1 /\ s[2] = " " THEN CollapseSpaces(Tail(s))
    ELSE <<"_">> \o CollapseSpaces(Tail(s))

\* a sanitiseNickname without the guards against an empty nick
sanitiseNickname_Unguarded(nick) == CollapseSpaces(ReplaceBadBytes(Unidecode(nick)))

sanitiseNickname(nick) ==
    IF nick = <<>> THEN <<"_">>
    ELSE LET n1 == IF Unidecode(nick) # <<>> THEN Unidecode(nick) ELSE nick
             n2 == IF n1[1] = "-" THEN <<"_">> \o n1 ELSE n1
             n3 == IF IsDigit(n2[1]) THEN <<"_">> \o n2 ELSE n2
         IN  CollapseSpaces(ReplaceBadBytes(n3))

\* firstRune(s), rune(0) being the empty sequence here
firstRune(s) == IF s = <<>> THEN <<>> ELSE <<s[1]>>

\* a setupCaps that ignores the reserved characters of the server
setupCaps_AlwaysBracket(decoration, c) ==
    IF c.acknowledged THEN <<"[", "d", "]">> ELSE decoration

\* IRCPuppeteer.setupCaps: the decoration after the call, given the one before and the
\* capability tables of the connection
setupCaps(decoration, c) ==
    IF c.acknowledged
    THEN IF firstRune(c.reserved) = <<>> THEN <<"[", "d", "]">> ELSE firstRune(c.reserved) \o <<"d">>
    ELSE decoration

IsUsingRelayMsg == usernameDecoration # <<>>

\* IRCPuppeteer.ircIgnoredDiscord
DiscordIgnores == {"u2"}
ircIgnoredDiscord(user) == user \in DiscordIgnores

generateNickname(username) == sanitiseNickname(username) \o usernameDecoration

RELAYMSG == <<"R", "E", "L", "A", "Y", "M", "S", "G", " ">>
PRIVMSG == <<"P", "R", "I", "V", "M", "S", "G", " ">>
CTCP == "^A"
CtcpAction == <<"A", "C", "T", "I", "O", "N", " ">>

\* the formats "RELAYMSG %s %s :%s" and, for an action, the same with the line in CTCP ACTION framing
RelayLine(channel, nick, line, isAction) ==
    RELAYMSG \o channel \o <<" ">> \o nick \o <<" ", ":">>
        \o (IF isAction THEN <<CTCP>> \o CtcpAction \o line \o <<CTCP>> ELSE line)

\* irc.Connection.Privmsg(target, message)
Privmsg(target, message) == PRIVMSG \o target \o <<" ", ":">> \o message

\* a SendMessage that sends the whole content in a single line
SendMessage_OneSend(channel, msg) ==
    LET chan == Split(channel, " ")[1]
    IN  << IF IsUsingRelayMsg
           THEN RelayLine(chan, generateNickname(msg.Username), msg.Content, msg.IsAction)
           ELSE Privmsg(chan, <<"<">> \o generateNickname(msg.Username) \o <<">", " ">>
                                 \o msg.Content) >>

\* IRCPuppeteer.SendMessage as src/unnamed/part_000 defines it: the lines it sends
SendMessage(channel, msg) ==
    LET content == msg.Content
        authorNick == generateNickname(msg.Username)
        chan == Split(channel, " ")[1]
        useRelayMsg == IsUsingRelayMsg
        lines == Split(content, "\n")
    IN  [i \in 1..Len(lines) |->
            IF useRelayMsg
            THEN RelayLine(chan, authorNick, lines[i], msg.IsAction)
            ELSE Privmsg(chan, <<"<">> \o authorNick \o <<">", " ">> \o lines[i])]

\* IRCPuppeteer.SendMessage as src/bridge/irc_puppeteer.go defines it: the lines it sends
SendMessage_irc_puppeteer(channel, msg) ==
    IF ircIgnoredDiscord(msg.AuthorID) THEN <<>>
    ELSE LET content == msg.Content
             chan == Split(channel, " ")[1]
             useRelayMsg == IsUsingRelayMsg
             lines == Split(content, "\n")
         IN  [i \in 1..Len(lines) |->
                IF useRelayMsg
                THEN RelayLine(chan, sanitiseNickname(msg.Username), lines[i], msg.IsAction)
                ELSE Privmsg(chan,
                        <<"<">> \o SubSeq(msg.Username, 1, 1) \o <<ZWSP>>
                               \o SubSeq(msg.Username, 2, Len(msg.Username))
                               \o <<"#">> \o msg.Discriminator \o <<">", " ">> \o lines[i])]

(***************************************************************************)
(* ircListener                                                             *)
(***************************************************************************)
\* Config, as MakeDefaultConfig and the configuration file of this model set it
IRCBotNick == <<"~", "d">>
ShowJoinQuit == TRUE

IRCIgnores == config.IRCIgnores
IRCFilteredMessages == config.IRCFilteredMessages
DiscordFilteredMessages == config.DiscordFilteredMessages
AvatarURL == <<"r", "/", "${USERNAME}">>

\* glob.Glob.Match for a pattern of literal characters and "*"
RECURSIVE GlobMatch(_, _)
GlobMatch(pattern, s) ==
    IF pattern = <<>> THEN s = <<>>
    ELSE IF Head(pattern) = "*"
         THEN \E k \in 0..Len(s) : GlobMatch(Tail(pattern), SubSeq(s, k + 1, Len(s)))
         ELSE s # <<>> /\ Head(s) = Head(pattern) /\ GlobMatch(Tail(pattern), Tail(s))

\* JsonGlob.Match: g.g.Match(s), a call through a nil interface when g.g was never set
Match(ban, s) ==
    IF ban.g = NilGlob THEN "panic"
    ELSE IF GlobMatch(ban.g, s) THEN "true" ELSE "false"

RECURSIVE MatchAny(_, _)
\* for _, ban := range bans { if ban.Match(s) { return true } }; return false
MatchAny(bans, s) ==
    IF bans = <<>> THEN "false"
    ELSE IF Match(Head(bans), s) = "false" THEN MatchAny(Tail(bans), s)
    ELSE Match(Head(bans), s)

isPuppetNick(nick) == IRCBotNick = nick
\* an isIgnoredHostmask that ignores nobody
isIgnoredHostmask_Nobody(mask) == "false"

isIgnoredHostmask(mask) == MatchAny(IRCIgnores, mask)
isFilteredIRCMessage(txt) == MatchAny(IRCFilteredMessages, txt)

\* irc.Event.Message(): the last argument
EventMessage(e) == IF e.Arguments = <<>> THEN <<>> ELSE e.Arguments[Len(e.Arguments)]

\* ircf.BlocksToMarkdown(ircf.Parse(msg)): the bold control code "^B" switches bold on and
\* off, and a bold block is rendered between two asterisks on each side
BOLD == "^B"
RECURSIVE RenderBlocks(_, _)
RenderBlocks(blocks, bold) ==
    IF blocks = <<>> THEN <<>>
    ELSE (IF bold /\ Head(blocks) # <<>>
          THEN <<"*", "*">> \o Head(blocks) \o <<"*", "*">>
          ELSE Head(blocks)) \o RenderBlocks(Tail(blocks), ~bold)
BlocksToMarkdown(msg) == RenderBlocks(Split(msg, BOLD), FALSE)

Nothing == [IRCChannel |-> <<>>, Username |-> <<>>, Message |-> <<>>, send |-> FALSE, panic |-> FALSE]
Send(channel, username, message) ==
    [IRCChannel |-> channel, Username |-> username, Message |-> message, send |-> TRUE, panic |-> FALSE]
\* the callback does not return: a call in it panicked
Panics == [Nothing EXCEPT !.panic = TRUE]

\* ircListener.OnPrivateMessage: the IRCMessage its goroutine hands off, if any
OnPrivateMessageMsg(e) ==
    IF e.Arguments[1][1] # "#" THEN Nothing
    ELSE IF HasSuffix(e.Nick, usernameDecoration) THEN Nothing
    ELSE IF isPuppetNick(e.Nick) THEN Nothing
    ELSE IF isIgnoredHostmask(e.Source) = "panic" THEN Panics
    ELSE IF isIgnoredHostmask(e.Source) = "true" THEN Nothing
    ELSE IF isFilteredIRCMessage(EventMessage(e)) = "panic" THEN Panics
    ELSE IF isFilteredIRCMessage(EventMessage(e)) = "true" THEN Nothing
    ELSE LET msg == IF e.Code = "CTCP_ACTION"
                    THEN <<"_">> \o EventMessage(e) \o <<"_">>
                    ELSE EventMessage(e)
         IN  Send(e.Arguments[1], e.Nick, BlocksToMarkdown(msg))

JOINED == <<" ", "j", "o", "i", "n", "e", "d">>
LEFT == <<" ", "l", "e", "f", "t">>

\* ircListener.OnJoinQuitCallback for STJOIN, STPART and STQUIT: the system message it
\* sends from the listener thread, if any.  For STQUIT the loop over Config.ChannelMappings
\* runs over the nil map Bridge.load left there.
OnJoinQuitCallbackMsg(e) ==
    IF isPuppetNick(e.Nick) THEN Nothing
    ELSE IF isIgnoredHostmask(e.Source) = "panic" THEN Panics
    ELSE IF isIgnoredHostmask(e.Source) = "true" THEN Nothing
    ELSE LET id == <<" ", "(">> \o e.User \o <<"@">> \o e.Host \o <<")", " ">>
         IN  CASE e.Code = "STJOIN" -> Send(e.Arguments[1], <<>>, e.Nick \o JOINED \o id)
               [] e.Code = "STPART" ->
                    Send(e.Arguments[1], <<>>,
                         e.Nick \o LEFT \o id
                            \o (IF Len(e.Arguments) > 1 THEN <<":", " ">> \o e.Arguments[2] ELSE <<>>))
               [] OTHER -> Nothing

(***************************************************************************)
(* Bridge.loop: the two handlers                                           *)
(***************************************************************************)
\* strings.TrimSpace
IsSpace(c) == c \in {" ", "\t", "\n", "\r"}
RECURSIVE TrimLeft(_)
TrimLeft(s) == IF s # <<>> /\ IsSpace(Head(s)) THEN TrimLeft(Tail(s)) ELSE s
RECURSIVE TrimRight(_)
TrimRight(s) == IF s # <<>> /\ IsSpace(s[Len(s)]) THEN TrimRight(SubSeq(s, 1, Len(s) - 1)) ELSE s
TrimSpace(s) == TrimRight(TrimLeft(s))

\* a wrapping that only looks for the empty content
WrapWhitespace_OnlyEmpty(content) ==
    IF content = <<>> THEN <<ZWSP>> \o content \o <<ZWSP>> ELSE content

\* the zero-width boundary markers
WrapWhitespace(content) ==
    IF content = <<>> \/ TrimSpace(content) # content
    THEN <<ZWSP>> \o content \o <<ZWSP>>
    ELSE content

\* Bridge.emoji, keyed by name
Emoji == { [key |-> <<"s">>, Name |-> <<"s">>, ID |-> <<"4", "2">>, Animated |-> FALSE],
           [key |-> <<"x">>, Name |-> <<"x">>, ID |-> <<"7">>, Animated |-> TRUE] }

ToLower(s) == [i \in 1..Len(s) |-> Lower(s[i])]

\* a replacement function that looks the name up as it is written
EmojiMarkup_CaseSensitive(name) ==
    IF \E e \in Emoji : e.key = name
    THEN LET e == CHOOSE x \in Emoji : x.key = name
         IN  <<"<">> \o (IF e.Animated THEN <<"a">> ELSE <<>>)
                     \o <<":">> \o e.Name \o <<":">> \o e.ID \o <<">">>
    ELSE <<":">> \o name \o <<":">>

\* the replacement function given to emojiRegex.ReplaceAllStringFunc, on the name between the colons
EmojiMarkup(name) ==
    IF \E e \in Emoji : e.key = ToLower(name)
    THEN LET e == CHOOSE x \in Emoji : x.key = ToLower(name)
         IN  <<"<">> \o (IF e.Animated THEN <<"a">> ELSE <<>>)
                     \o <<":">> \o e.Name \o <<":">> \o e.ID \o <<">">>
    ELSE <<":">> \o name \o <<":">>

\* [a-zA-Z_-]
IsEmojiNameChar(c) == c \in Letters \cup {"_", "-"}
RECURSIVE NameRun(_)
NameRun(s) == IF s # <<>> /\ IsEmojiNameChar(Head(s)) THEN 1 + NameRun(Tail(s)) ELSE 0

RECURSIVE ReplaceEmoji(_)
\* emojiRegex.ReplaceAllStringFunc: leftmost matches of (:[a-zA-Z_-]+:), not overlapping
ReplaceEmoji(s) ==
    IF s = <<>> THEN <<>>
    ELSE LET run == NameRun(Tail(s))
         IN  IF Head(s) = ":" /\ run >= 1 /\ Len(s) >= run + 2 /\ s[run + 2] = ":"
             THEN EmojiMarkup(SubSeq(s, 2, run + 1)) \o ReplaceEmoji(SubSeq(s, run + 3, Len(s)))
             ELSE <<Head(s)>> \o ReplaceEmoji(Tail(s))

\* discordBot.GetAvatar: the avatar of a Discord member of that name, "" when there is none
AvatarCache == { [username |-> <<"a", "l">>, url |-> <<"c", "/", "a", "l">>] }
GetAvatar(username) ==
    IF \E a \in AvatarCache : a.username = username
    THEN (CHOOSE a \in AvatarCache : a.username = username).url
    ELSE <<>>

\* strings.ReplaceAll(AvatarURL, "${USERNAME}", username), the token being one element
AvatarFromTemplate(username) ==
    Flatten([i \in 1..Len(AvatarURL) |->
                IF AvatarURL[i] = "${USERNAME}" THEN username ELSE <<AvatarURL[i]>>])

NoCall == NoCallYet

\* a handler that lets every kind of mention through the send-as call
IRCToDiscord_MentionsEveryone(msg) ==
    LET lookup == GetMappingByIRC(msg.IRCChannel)
    IN  IF ~lookup.ok THEN NoCall
        ELSE IF msg.Username = <<>>
        THEN [api |-> "ChannelMessageSend", channel |-> lookup.mapping.DiscordChannel,
              username |-> <<>>, avatar |-> <<>>,
              content |-> ReplaceEmoji(WrapWhitespace(msg.Message)), mentions |-> {}]
        ELSE [api |-> "transmitter.Send", channel |-> lookup.mapping.DiscordChannel,
              username |-> msg.Username, avatar |-> <<>>,
              content |-> ReplaceEmoji(WrapWhitespace(msg.Message)),
              mentions |-> {"roles", "users", "everyone"}]

\* the handler of a message from IRC that ignores whether a mapping was found
IRCToDiscord_NoMappingCheck(msg) ==
    [api |-> "ChannelMessageSend", channel |-> GetMappingByIRC(msg.IRCChannel).mapping.DiscordChannel,
     username |-> <<>>, avatar |-> <<>>, content |-> msg.Message, mentions |-> {}]

\* case msg := <-b.discordMessagesChan: the Discord call the handler makes
IRCToDiscord(msg) ==
    LET lookup == GetMappingByIRC(msg.IRCChannel)
        avatar == IF msg.Username = <<>> THEN <<>>
                  ELSE IF GetAvatar(msg.Username) = <<>> THEN AvatarFromTemplate(msg.Username)
                  ELSE GetAvatar(msg.Username)
        username == IF msg.Username # <<>> /\ ByteLength(msg.Username) = 1
                    THEN msg.Username \o <<".">>
                    ELSE msg.Username
        content == ReplaceEmoji(WrapWhitespace(msg.Message))
    IN  IF ~lookup.ok THEN NoCall
        ELSE IF username = <<>>
        THEN [api |-> "ChannelMessageSend", channel |-> lookup.mapping.DiscordChannel,
              username |-> <<>>, avatar |-> <<>>, content |-> content, mentions |-> {}]
        ELSE [api |-> "transmitter.Send", channel |-> lookup.mapping.DiscordChannel,
              username |-> username, avatar |-> avatar, content |-> content,
              mentions |-> {"roles", "users"}]

\* the handler of a Discord event that ignores whether a mapping was found
DiscordToIRC_NoMappingCheck(msg) ==
    SendMessage(GetMappingByDiscord(msg.ChannelID).mapping.IRCChannel, msg)

\* case msg := <-b.discordMessageEventsChan: the IRC lines the handler sends
DiscordToIRC(msg) ==
    LET lookup == GetMappingByDiscord(msg.ChannelID)
    IN  IF ~lookup.ok THEN <<>>
        ELSE IF puppeteerSource = "part_000"
        THEN SendMessage(lookup.mapping.IRCChannel, msg)
        ELSE SendMessage_irc_puppeteer(lookup.mapping.IRCChannel, msg)

(***************************************************************************)
(* The running bridge: Open, the listener thread, the hand-off goroutines, *)
(* the senders of Discord events, the dispatcher loop and Close            *)
(***************************************************************************)
\* how many events the two networks present in one run
MaxEvents == 3

\* the channel_mappings tables the running bridge is started with
RouterTables ==
    { { [irc |-> <<"#", "a">>, discord |-> "X"] } }

\* what the server answers to the request for draft/relaymsg
Handshakes ==
    { [acknowledged |-> FALSE, reserved |-> <<>>],
      [acknowledged |-> TRUE, reserved |-> <<>>],
      [acknowledged |-> TRUE, reserved |-> <<"/">>] }

Al == <<"a", "l">>
IRCEvent(code, nick, args) ==
    [Code |-> code, Nick |-> nick, User |-> <<"u">>, Host |-> <<"h">>,
     Source |-> nick \o <<"!", "u", "@", "h">>, Arguments |-> args]

\* PRIVMSG and CTCP_ACTION events the server may present
PrivateMessageEvents ==
    { IRCEvent("PRIVMSG", Al, << <<"#", "A">>, <<"m">> >>),
      IRCEvent("CTCP_ACTION", <<"x">>, << <<"#", "q">>, <<" ", ":", "S", ":">> >>),
      IRCEvent("PRIVMSG", Al, << IRCBotNick, <<"m">> >>),
      IRCEvent("PRIVMSG", IRCBotNick, << <<"#", "a">>, <<"m">> >>),
      IRCEvent("PRIVMSG", <<"B", "o", "b", "/", "d">>, << <<"#", "a">>, <<"h", "i">> >>) }

\* STJOIN, STPART and STQUIT events of the nick tracker
JoinQuitEvents ==
    { IRCEvent("STJOIN", Al, << <<"#", "a">> >>),
      IRCEvent("STPART", IRCBotNick, << <<"#", "a">>, <<"b", "y", "e">> >>),
      IRCEvent("STQUIT", Al, << <<"b", "y", "e">> >>) }

DiscordMessage(channel, author, username, content, isAction) ==
    [ChannelID |-> channel, AuthorID |-> author, Username |-> username,
     Discriminator |-> <<"0", "0", "0", "1">>, Content |-> content, IsAction |-> isAction]

Bob == <<"B", "o", "b">>
Eve == <<"E", "v", "e">>

\* the Discord events that may be submitted
DiscordMessages ==
    { DiscordMessage("X", "u1", Bob, <<"a", "\n", "b">>, TRUE),
      DiscordMessage("X", "u2", Eve, <<"h", "i">>, FALSE),
      DiscordMessage("Q", "u1", Bob, <<"h", "i">>, FALSE) }

\* Bridge.Open: b.discord.Open()
OpenDiscord ==
    /\ Alive
    /\ phase = "running"
    /\ openPc = "created"
    /\ openPc' = "discord_open"
    /\ UNCHANGED <<storeVars, ircOut, puppeteerSource, caps, usernameDecoration, listenerPc,
                   listenerMsg, ircSeen, handoff, discordSeen, discordInbox, loopPc, dispatched,
                   received, inflight, closerPc, doneClosed, closed>>
    /\ UNCHANGED <<failed, config, reloadVars, applied>>

\* Bridge.Open: b.ircListener.Connect(...), whose handshake fills the capability tables
ConnectIRC ==
    /\ Alive
    /\ openPc = "discord_open"
    /\ \E h \in Handshakes : caps' = h
    /\ openPc' = "irc_connected"
    /\ UNCHANGED <<storeVars, ircOut, puppeteerSource, usernameDecoration, listenerPc,
                   listenerMsg, ircSeen, handoff, discordSeen, discordInbox, loopPc, dispatched,
                   received, inflight, closerPc, doneClosed, closed>>
    /\ UNCHANGED <<failed, config, reloadVars, applied>>

\* Bridge.Open: b.IRCPuppeteer.setupCaps() and go b.ircListener.Loop()
SetupCaps ==
    /\ Alive
    /\ openPc = "irc_connected"
    /\ usernameDecoration' = setupCaps(usernameDecoration, caps)
    /\ openPc' = "open"
    /\ UNCHANGED <<storeVars, ircOut, puppeteerSource, caps, listenerPc,
                   listenerMsg, ircSeen, handoff, discordSeen, discordInbox, loopPc, dispatched,
                   received, inflight, closerPc, doneClosed, closed>>
    /\ UNCHANGED <<failed, config, reloadVars, applied>>

\* the connection runs the callbacks from the moment it is connected; Quit only sends QUIT,
\* and a callback that is already running still reaches its send afterwards
ListenerRuns ==
    /\ openPc \in {"irc_connected", "open"}
    /\ listenerPc = "idle"
    /\ ircSeen + discordSeen < MaxEvents

\* how a callback of the listener ends for the event e.  A panic in it is either recovered by
\* the connection that runs the callbacks, which goes on with the next event, or ends the
\* process; listenerMsg then keeps what the callback was working on.
CallbackEnds(panic, e) ==
    IF panic
    THEN \E recovered \in BOOLEAN :
            IF recovered
            THEN UNCHANGED <<listenerPc, listenerMsg, loopPc>>
            ELSE /\ listenerPc' = "panicked"
                 /\ listenerMsg' = [IRCChannel |-> e.Arguments[1], Username |-> e.Nick,
                                    Message |-> EventMessage(e)]
                 /\ loopPc' = "crashed"
    ELSE UNCHANGED <<listenerPc, listenerMsg, loopPc>>

\* ircListener.OnPrivateMessage: the callback returns at once; the send is left to a goroutine,
\* which keeps the event
OnPrivateMessage ==
    /\ ListenerRuns
    /\ \E e \in PrivateMessageEvents :
          LET m == OnPrivateMessageMsg(e)
          IN  /\ handoff' = IF m.send
                            THEN handoff \cup { [seq |-> ircSeen + 1, event |-> e,
                                                 msg |-> [IRCChannel |-> m.IRCChannel,
                                                          Username |-> m.Username, Message |-> m.Message]] }
                            ELSE handoff
              /\ CallbackEnds(m.panic, e)
    /\ ircSeen' = ircSeen + 1
    /\ UNCHANGED <<storeVars, ircOut, puppeteerSource, openPc, caps, usernameDecoration,
                   discordSeen, discordInbox, dispatched,
                   received, inflight, closerPc, doneClosed, closed>>
    /\ UNCHANGED <<failed, config, reloadVars, applied>>

\* ircListener.OnJoinQuitCallback: the callback itself sends, and blocks the listener thread
OnJoinQuitCallback ==
    /\ ListenerRuns
    /\ ShowJoinQuit
    /\ \E e \in JoinQuitEvents :
          LET m == OnJoinQuitCallbackMsg(e)
          IN  IF m.send
              THEN /\ listenerPc' = "blocked"
                   /\ listenerMsg' = [IRCChannel |-> m.IRCChannel, Username |-> m.Username,
                                      Message |-> m.Message]
                   /\ UNCHANGED loopPc
              ELSE CallbackEnds(m.panic, e)
    /\ ircSeen' = ircSeen + 1
    /\ UNCHANGED <<storeVars, ircOut, puppeteerSource, openPc, caps, usernameDecoration,
                   handoff, discordSeen, discordInbox, dispatched,
                   received, inflight, closerPc, doneClosed, closed>>
    /\ UNCHANGED <<failed, config, reloadVars, applied>>

\* a handler of the Discord session sends a DiscordMessage on discordMessageEventsChan; a
\* handler that is already running when the session is closed still reaches its send
SubmitDiscordEvent ==
    /\ Alive
    /\ openPc # "created"
    /\ ircSeen + discordSeen < MaxEvents
    /\ \E m \in DiscordMessages :
          discordInbox' = discordInbox \cup { [seq |-> discordSeen + 1, msg |-> m] }
    /\ discordSeen' = discordSeen + 1
    /\ UNCHANGED <<storeVars, ircOut, puppeteerSource, openPc, caps, usernameDecoration, listenerPc,
                   listenerMsg, ircSeen, handoff, loopPc, dispatched,
                   received, inflight, closerPc, doneClosed, closed>>
    /\ UNCHANGED <<failed, config, reloadVars, applied>>

\* the dispatcher has handled the IRCMessage msg with arrival number seq, sent to it by the
\* goroutine of an OnPrivateMessage ("handoff") or by the listener thread ("listener")
HandleIRC(seq, msg, via) ==
    LET call == IRCToDiscord(msg)
    IN  /\ dispatched' = [src |-> "irc", seq |-> seq, irc |-> msg, discord |-> NoDiscordMessage,
                          lines |-> <<>>, call |-> call]
        /\ received' = Append(received, [seq |-> seq, via |-> via])
        /\ loopPc' = IF call.api = "ChannelMessageSend" THEN "system_send" ELSE "select"
        /\ inflight' = IF call.api = "transmitter.Send"
                       THEN inflight \cup { [seq |-> seq, call |-> call] }
                       ELSE inflight
        /\ UNCHANGED failed

\* select receives from the goroutine of an OnPrivateMessage
DispatchIRCHandoff ==
    /\ loopPc = "select"
    /\ \E g \in handoff :
          /\ handoff' = handoff \ {g}
          /\ HandleIRC(g.seq, g.msg, "handoff")
    /\ UNCHANGED <<storeVars, ircOut, puppeteerSource, openPc, caps, usernameDecoration, listenerPc,
                   listenerMsg, ircSeen, discordSeen, discordInbox, closerPc, doneClosed, closed>>
    /\ UNCHANGED <<config, reloadVars, applied>>

\* select receives from the listener thread, which goes on
DispatchIRCListener ==
    /\ loopPc = "select"
    /\ listenerPc = "blocked"
    /\ listenerPc' = "idle"
    /\ listenerMsg' = NoMessage
    /\ HandleIRC(ircSeen, listenerMsg, "listener")
    /\ UNCHANGED <<storeVars, ircOut, puppeteerSource, openPc, caps, usernameDecoration,
                   ircSeen, handoff, discordSeen, discordInbox, closerPc, doneClosed, closed>>
    /\ UNCHANGED <<config, reloadVars, applied>>

\* b.discord.Session.ChannelMessageSend returns to the loop, with or without an error
SystemSendReturns ==
    /\ loopPc = "system_send"
    /\ loopPc' = "select"
    /\ UNCHANGED <<storeVars, ircOut, puppeteerSource, openPc, caps, usernameDecoration, listenerPc,
                   listenerMsg, ircSeen, handoff, discordSeen, discordInbox, dispatched,
                   received, inflight, closerPc, doneClosed, closed>>
    /\ UNCHANGED <<failed, config, reloadVars, applied>>

\* a send-as goroutine that calls again when its call returned an error
SendAsReturns_Retry ==
    /\ Alive
    /\ \E w \in inflight :
          \E sendErr \in {"nil", "error"} :
             /\ inflight' = IF sendErr = "nil" THEN inflight \ {w} ELSE inflight
             /\ failed' = IF sendErr = "nil" THEN failed ELSE failed \cup {w.seq}
    /\ UNCHANGED <<storeVars, ircOut, puppeteerSource, openPc, caps, usernameDecoration, listenerPc,
                   listenerMsg, ircSeen, handoff, discordSeen, discordInbox, loopPc, dispatched,
                   received, closerPc, doneClosed, closed>>
    /\ UNCHANGED <<config, reloadVars, applied>>

\* b.discord.transmitter.Send returns in its goroutine; an error is logged
SendAsReturns ==
    /\ Alive
    /\ \E w \in inflight :
          /\ inflight' = inflight \ {w}
          /\ \E sendErr \in {"nil", "error"} :
                failed' = IF sendErr = "nil" THEN failed ELSE failed \cup {w.seq}
    /\ UNCHANGED <<storeVars, ircOut, puppeteerSource, openPc, caps, usernameDecoration, listenerPc,
                   listenerMsg, ircSeen, handoff, discordSeen, discordInbox, loopPc, dispatched,
                   received, closerPc, doneClosed, closed>>
    /\ UNCHANGED <<config, reloadVars, applied>>

\* select receives a Discord event
DispatchDiscord ==
    /\ loopPc = "select"
    /\ \E d \in discordInbox :
          /\ discordInbox' = discordInbox \ {d}
          /\ dispatched' = [src |-> "discord", seq |-> d.seq, irc |-> NoMessage, discord |-> d.msg,
                            lines |-> DiscordToIRC(d.msg), call |-> NoCall]
    /\ UNCHANGED <<storeVars, ircOut, puppeteerSource, openPc, caps, usernameDecoration, listenerPc,
                   listenerMsg, ircSeen, handoff, discordSeen, loopPc,
                   received, inflight, closerPc, doneClosed, closed>>
    /\ UNCHANGED <<failed, config, reloadVars, applied>>

\* Bridge.Close is called: b.done <- true, which panics on a closed channel
CloseCall ==
    /\ Alive
    /\ closerPc \in {"idle", "returned"}
    /\ closerPc' = IF doneClosed THEN "panicked" ELSE "sending"
    /\ UNCHANGED <<storeVars, ircOut, puppeteerSource, openPc, caps, usernameDecoration, listenerPc,
                   listenerMsg, ircSeen, handoff, discordSeen, discordInbox, loopPc, dispatched,
                   received, inflight, doneClosed, closed>>
    /\ UNCHANGED <<failed, config, reloadVars, applied>>

\* case <-b.done: the loop receives what Close sent
DoneReceived ==
    /\ loopPc = "select"
    /\ closerPc = "sending"
    /\ closerPc' = "waiting"
    /\ loopPc' = "teardown"
    /\ UNCHANGED <<storeVars, ircOut, puppeteerSource, openPc, caps, usernameDecoration, listenerPc,
                   listenerMsg, ircSeen, handoff, discordSeen, discordInbox, dispatched,
                   received, inflight, doneClosed, closed>>
    /\ UNCHANGED <<failed, config, reloadVars, applied>>

\* b.discord.Close(); b.ircListener.Quit(); b.IRCPuppeteer.Close(); close(b.done); return
Teardown ==
    /\ loopPc = "teardown"
    /\ closed' = {"discord", "ircListener", "puppeteer"}
    /\ doneClosed' = TRUE
    /\ loopPc' = "stopped"
    /\ UNCHANGED <<storeVars, ircOut, puppeteerSource, openPc, caps, usernameDecoration, listenerPc,
                   listenerMsg, ircSeen, handoff, discordSeen, discordInbox, dispatched,
                   received, inflight, closerPc>>
    /\ UNCHANGED <<failed, config, reloadVars, applied>>

\* a return from Close that does not wait for the loop
CloseReturn_NoWait ==
    /\ closerPc = "waiting"
    /\ closerPc' = "returned"
    /\ UNCHANGED <<storeVars, ircOut, puppeteerSource, openPc, caps, usernameDecoration, listenerPc,
                   listenerMsg, ircSeen, handoff, discordSeen, discordInbox, loopPc, dispatched,
                   received, inflight, doneClosed, closed>>
    /\ UNCHANGED <<failed, config, reloadVars, applied>>

\* <-b.done in Close: a receive from the channel, which only its closing lets through
CloseReturn ==
    /\ Alive
    /\ closerPc = "waiting"
    /\ doneClosed
    /\ closerPc' = "returned"
    /\ UNCHANGED <<storeVars, ircOut, puppeteerSource, openPc, caps, usernameDecoration, listenerPc,
                   listenerMsg, ircSeen, handoff, discordSeen, discordInbox, loopPc, dispatched,
                   received, inflight, doneClosed, closed>>
    /\ UNCHANGED <<failed, config, reloadVars, applied>>

\* the bridge as bridge.New returns it, loaded with one of RouterTables
InitRouter ==
    /\ phase = "running"
    /\ \E t \in RouterTables : \E ord \in IterationOrders(t) :
          /\ arg = t
          /\ mappings = ParseEntries(ord, <<>>, {}).mappings
          /\ ircChannelKeys = ParseEntries(ord, <<>>, {}).ircChannelKeys
          /\ ~HasDuplicate(mappings)
    /\ err = "nil"
    /\ ircOut = <<>>
    /\ puppeteerSource \in {"part_000", "irc_puppeteer.go"}
    /\ config = LoadConfigInto(NoFilters)
    /\ Created

NextRouter ==
    \/ OpenDiscord
    \/ ConnectIRC
    \/ SetupCaps
    \/ OnPrivateMessage
    \/ OnJoinQuitCallback
    \/ SubmitDiscordEvent
    \/ DispatchIRCHandoff
    \/ DispatchIRCListener
    \/ SystemSendReturns
    \/ SendAsReturns
    \/ DispatchDiscord
    \/ CloseCall
    \/ DoneReceived
    \/ Teardown
    \/ CloseReturn

SpecRouter == InitRouter /\ [][NextRouter]_vars

(***************************************************************************)
(* Properties of the running bridge                                        *)
(***************************************************************************)
\* the mapping table has no entry for the channel of the event d
Unmapped(d) ==
    CASE d.src = "irc" ->
            ~\E m \in Range(mappings) : EqualFold(m.IRCChannel, d.irc.IRCChannel)
      [] d.src = "discord" ->
            ~\E m \in Range(mappings) : m.DiscordChannel = d.discord.ChannelID
      [] OTHER -> FALSE

\* the event d is still held by a sender, a queue or a send in flight
Pending(d) ==
    \/ d.src = "irc" /\ \E g \in handoff : g.seq = d.seq
    \/ d.src = "irc" /\ listenerPc = "blocked" /\ ircSeen = d.seq
    \/ d.src = "irc" /\ \E w \in inflight : w.seq = d.seq
    \/ d.src = "discord" /\ \E q \in discordInbox : q.seq = d.seq

\* C7: a Discord message whose author id is in DiscordIgnores is never forwarded to IRC:
\* the dispatch of such a message produces no RELAYMSG and no PRIVMSG line, whatever the
\* mapping and the relay mode.
C7_IgnoredAuthorNotForwarded ==
    (dispatched.src = "discord" /\ ircIgnoredDiscord(dispatched.discord.AuthorID))
        => dispatched.lines = <<>>

\* C8: an event whose channel has no mapping when it is dispatched is dropped: the step
\* that dispatches it sends no line to IRC, makes no call to Discord and starts no send,
\* leaves the event with no sender or queue that could present it again, and leaves the
\* dispatcher at its select, ready for the next event.
C8_UnmappedEventDropped ==
    [][(dispatched' # dispatched /\ Unmapped(dispatched)')
          => /\ dispatched'.lines = <<>>
             /\ dispatched'.call = NoCall
             /\ inflight' = inflight
             /\ ~Pending(dispatched)'
             /\ loopPc' = "select"]_vars

\* an unmapped IRC message has been dispatched, and the dispatcher stands at its select
\* with the next event already waiting
C8_Witness ==
    /\ dispatched.src = "irc"
    /\ Unmapped(dispatched)
    /\ dispatched.irc.IRCChannel = <<"#", "q">>
    /\ loopPc = "select"
    /\ discordInbox # {}

\* C9: Close returns only after the loop has closed the Discord connection, quit the IRC
\* listener and closed the puppeteer and has stopped; and a stopped loop stays stopped and
\* dispatches nothing, whatever is submitted afterwards.
C9_CloseIsRendezvous ==
    /\ [](closerPc = "returned"
             => closed = {"discord", "ircListener", "puppeteer"} /\ loopPc = "stopped")
    /\ [][loopPc = "stopped"
             => /\ loopPc' = "stopped"
                /\ dispatched' = dispatched
                /\ received' = received
                /\ inflight' \subseteq inflight]_vars

\* Close has returned while senders on both sides still hold events for the dispatcher
C9_Witness ==
    /\ closerPc = "returned"
    /\ handoff # {}
    /\ discordInbox # {}

\* C10: the dispatcher receives the channel messages of the IRC listener in the order in
\* which the listener received them.
C10_HandoffPreservesOrder ==
    \A i, j \in 1..Len(received) :
        (i < j /\ received[i].via = "handoff" /\ received[j].via = "handoff")
            => received[i].seq < received[j].seq

\* C11: the dispatcher never waits for a network send to complete: whatever event it has
\* handled, it is back at its select (or tearing down) and not inside a call to the network.
C11_DispatcherNeverWaitsForSend == loopPc # "system_send"

\* C12: a user message is delivered by a task of its own, started whatever the number of
\* tasks already in flight, and the dispatcher is back at its select at once; when a
\* delivery fails, the failure is logged and that is all: the task is gone, the message
\* is not queued again, nothing is sent to IRC, and the dispatcher is where it was.
C12_SendAsIsFireAndForget ==
    [][ /\ (/\ dispatched' # dispatched
            /\ dispatched'.src = "irc"
            /\ dispatched'.irc.Username # <<>>
            /\ ~Unmapped(dispatched)')
           => /\ inflight' = inflight \cup { [seq |-> dispatched'.seq, call |-> dispatched'.call] }
              /\ Cardinality(inflight') = Cardinality(inflight) + 1
              /\ dispatched'.call.api = "transmitter.Send"
              /\ loopPc' = "select"
        /\ (failed' # failed)
           => \E w \in inflight :
                 /\ failed' = failed \cup {w.seq}
                 /\ inflight' = inflight \ {w}
                 /\ dispatched' = dispatched /\ received' = received /\ loopPc' = loopPc
                 /\ handoff' = handoff /\ discordInbox' = discordInbox
                 /\ listenerPc' = listenerPc /\ listenerMsg' = listenerMsg
                 /\ ircOut' = ircOut ]_vars

\* the first delivery has failed, the dispatcher has gone on to receive two more user
\* messages, and their two deliveries are in flight together
C12_Witness ==
    /\ Len(received) = 3
    /\ received[1].seq \in failed
    /\ Cardinality(inflight) = 2
    /\ loopPc = "select"

\* C13: no Discord event is delivered to IRC by SendMessage before setupCaps has resolved
\* the decoration from the finished handshake: a dispatch that sent lines to IRC happened
\* with Bridge.Open past its call of setupCaps.
C13_SetupCapsBeforePuppeteering ==
    (dispatched.src = "discord" /\ dispatched.lines # <<>>) => openPc = "open"

(***************************************************************************)
(* SetChannelMappings on the running bridge, statement by statement, with  *)
(* another goroutine reading the store: the fields are plain fields of the *)
(* Bridge, written and read without a lock or a channel                    *)
(***************************************************************************)
\* the tables handed to SetChannelMappings while the bridge runs
ReloadTables ==
    { {},
      { [irc |-> <<"#", "a">>, discord |-> "X"] },
      { [irc |-> <<"#", "b", " ", "k">>, discord |-> "Y"] },
      { [irc |-> <<"#", "a">>, discord |-> "X"], [irc |-> <<"#", "b", " ", "k">>, discord |-> "Y"] },
      { [irc |-> <<"#", "b">>, discord |-> "X"], [irc |-> <<"#", "b", " ", "k">>, discord |-> "Y"] } }

\* SetChannelMappings up to oldMappings := b.mappings: parsing, the duplicate check
BeginSetChannelMappings ==
    /\ phase = "running"
    /\ \E t \in ReloadTables : \E ord \in IterationOrders(t) :
          LET parsed == ParseEntries(ord, <<>>, {})
          IN  /\ arg' = t
              /\ IF HasDuplicate(parsed.mappings)
                 THEN /\ err' = ErrDuplicate
                      /\ UNCHANGED <<phase, pending>>
                 ELSE /\ err' = "nil"
                      /\ pending' = [mappings |-> parsed.mappings,
                                     ircChannelKeys |-> parsed.ircChannelKeys,
                                     oldMappings |-> mappings]
                      /\ phase' = "assigning"
    /\ ircOut' = <<>>
    /\ UNCHANGED <<mappings, ircChannelKeys, routerVars, observed, applied>>

\* b.mappings = mappings
AssignMappings ==
    /\ phase = "assigning"
    /\ mappings' = pending.mappings
    /\ phase' = "mappings_assigned"
    /\ UNCHANGED <<ircChannelKeys, arg, err, ircOut, routerVars, reloadVars, applied>>

\* b.ircChannelKeys = ircChannelKeys, and the rest of the call: the PART and the JOIN
AssignKeys ==
    /\ phase = "mappings_assigned"
    /\ ircChannelKeys' = pending.ircChannelKeys
    /\ ircOut' = IF pending.oldMappings # <<>>
                 THEN ReconfigureLines(pending.oldMappings, pending.mappings)
                 ELSE <<>>
    /\ phase' = "running"
    /\ pending' = NoPending
    /\ UNCHANGED <<mappings, arg, err, routerVars, observed, applied>>

\* the dispatcher (GetMappingByIRC, GetMappingByDiscord) or another reader (GetJoinCommand,
\* RequestChannels) reads the store at whatever point the writer has reached
ReaderLooksUp ==
    /\ phase \in {"running", "assigning", "mappings_assigned"}
    /\ observed' = [mappings |-> mappings, ircChannelKeys |-> ircChannelKeys, during |-> phase]
    /\ UNCHANGED <<storeVars, ircOut, routerVars, pending, applied>>

\* the running bridge, loaded with one of ReloadTables
InitReload ==
    /\ phase = "running"
    /\ \E t \in ReloadTables : \E ord \in IterationOrders(t) :
          /\ arg = t
          /\ mappings = ParseEntries(ord, <<>>, {}).mappings
          /\ ircChannelKeys = ParseEntries(ord, <<>>, {}).ircChannelKeys
          /\ ~HasDuplicate(mappings)
    /\ err = "nil"
    /\ ircOut = <<>>
    /\ puppeteerSource = "part_000"
    /\ config = LoadConfigInto(NoFilters)
    /\ Created

NextReload == BeginSetChannelMappings \/ AssignMappings \/ AssignKeys \/ ReaderLooksUp

SpecReload == InitReload /\ [][NextReload]_vars

\* C14: a reader never looks at the store while SetChannelMappings is between its two
\* assignments, and what it sees is never torn: every channel of the key table it sees is
\* a channel of the mapping set it sees.
C14_ReconfigurationSerialized ==
    /\ observed.during # "mappings_assigned"
    /\ \A k \in observed.ircChannelKeys :
          \E i \in 1..Len(observed.mappings) : observed.mappings[i].IRCChannel = k.channel

\* C15: once Bridge.Open has run setupCaps, the decoration is the first reserved character
\* followed by "d" when draft/relaymsg was acknowledged with reserved characters, "[d]" when
\* it was acknowledged without any, and empty when it was not acknowledged; before that it
\* is empty; and relay-spoofing is in use exactly when the decoration is not empty.
C15_DecorationResolvedThreeWays ==
    /\ openPc = "open" =>
          /\ (caps.acknowledged /\ caps.reserved # <<>>)
                => usernameDecoration = <<caps.reserved[1], "d">>
          /\ (caps.acknowledged /\ caps.reserved = <<>>)
                => usernameDecoration = <<"[", "d", "]">>
          /\ ~caps.acknowledged => usernameDecoration = <<>>
          /\ IsUsingRelayMsg <=> caps.acknowledged
    /\ openPc # "open" => (usernameDecoration = <<>> /\ ~IsUsingRelayMsg)
    /\ IsUsingRelayMsg <=> Len(usernameDecoration) > 0

\* setupCaps has run on a handshake that acknowledged draft/relaymsg=/
C15_Witness ==
    /\ openPc = "open"
    /\ caps = [acknowledged |-> TRUE, reserved |-> <<"/">>]
    /\ usernameDecoration = <<"/", "d">>

(***************************************************************************)
(* IRCPuppeteer.SendMessage on its own: every channel argument, author and *)
(* content up to a bound, under each outcome of setupCaps                  *)
(***************************************************************************)
\* the longest message content, in characters
MaxContentLen == 3

ContentChars == {"a", "b", "\n"}

RECURSIVE ContentsOfLen(_)
ContentsOfLen(n) ==
    IF n = 0 THEN { <<>> }
    ELSE { <<c>> \o rest : c \in ContentChars, rest \in ContentsOfLen(n - 1) }

Contents == UNION { ContentsOfLen(n) : n \in 0..MaxContentLen }

\* the channel argument: a bare channel name, and a name followed by its key
SendChannels == { <<"#", "a">>, <<"#", "b", " ", "k">> }

\* the authors: u1 is bridged, u2 is listed in DiscordIgnores
Authors == { [id |-> "u1", name |-> Bob], [id |-> "u2", name |-> Eve] }

\* the call about to be made: its channel argument and its message
Calling(channel, msg) ==
    [src |-> "calling", seq |-> 0, irc |-> [NoMessage EXCEPT !.IRCChannel = channel],
     discord |-> msg, lines |-> <<>>, call |-> NoCall]

\* b.ircPuppeteer.SendMessage(channel, msg)
CallSendMessage ==
    /\ dispatched.src = "calling"
    /\ LET channel == dispatched.irc.IRCChannel
           msg == dispatched.discord
       IN  dispatched' =
              [dispatched EXCEPT !.src = "SendMessage",
                                 !.lines = IF puppeteerSource = "part_000"
                                           THEN SendMessage(channel, msg)
                                           ELSE SendMessage_irc_puppeteer(channel, msg)]
    /\ UNCHANGED <<storeVars, ircOut, puppeteerSource, openPc, caps, usernameDecoration,
                   listenerPc, listenerMsg, ircSeen, handoff, discordSeen, discordInbox, loopPc,
                   received, inflight, closerPc, doneClosed, closed>>
    /\ UNCHANGED <<failed, config, reloadVars, applied>>

InitSend ==
    /\ phase = "running"
    /\ arg = {}
    /\ mappings = <<>>
    /\ ircChannelKeys = {}
    /\ err = "nil"
    /\ ircOut = <<>>
    /\ puppeteerSource \in {"part_000", "irc_puppeteer.go"}
    /\ config = LoadConfigInto(NoFilters)
    /\ openPc = "open"
    /\ caps \in Handshakes
    /\ usernameDecoration = setupCaps(<<>>, caps)
    /\ listenerPc = "idle"
    /\ listenerMsg = NoMessage
    /\ ircSeen = 0
    /\ handoff = {}
    /\ discordSeen = 0
    /\ discordInbox = {}
    /\ loopPc = "select"
    /\ \E channel \in SendChannels, content \in Contents, a \in Authors, isAction \in BOOLEAN :
          dispatched = Calling(channel, DiscordMessage("X", a.id, a.name, content, isAction))
    /\ received = <<>>
    /\ inflight = {}
    /\ closerPc = "idle"
    /\ doneClosed = FALSE
    /\ closed = {}
    /\ failed = {}
    /\ pending = NoPending
    /\ observed = NoObservation
    /\ applied = NoApplication

NextSend == CallSendMessage

SpecSend == InitSend /\ [][NextSend]_vars

(***************************************************************************)
(* Properties of IRCPuppeteer.SendMessage                                  *)
(***************************************************************************)
\* the call of SendMessage the state records: its arguments and the lines it sent
SendCalled == dispatched.src = "SendMessage"
CalledChannel == dispatched.irc.IRCChannel
CalledMsg == dispatched.discord
Sent == dispatched.lines

StartsWith(s, prefix) == Len(prefix) <= Len(s) /\ SubSeq(s, 1, Len(prefix)) = prefix
After(s, prefix) == SubSeq(s, Len(prefix) + 1, Len(s))

\* the channel argument up to its first space
BareChannel(channel) ==
    IF \E i \in 1..Len(channel) : channel[i] = " "
    THEN SubSeq(channel, 1, (CHOOSE i \in 1..Len(channel) :
                                /\ channel[i] = " "
                                /\ \A j \in 1..(i - 1) : channel[j] # " ") - 1)
    ELSE channel

\* the positions of the newline characters of a content, and its pieces between them
NewlinesBefore(content, n) == Cardinality({ j \in 1..n : content[j] = "\n" })
Piece(content, i) ==
    LET idx == { j \in 1..Len(content) :
                    content[j] # "\n" /\ NewlinesBefore(content, j) = i - 1 }
    IN  [k \in 1..Cardinality(idx) |->
            content[CHOOSE j \in idx : Cardinality({ h \in idx : h < j }) = k - 1]]

\* C16: with a non-empty decoration every line of a puppeteered message goes out as
\* RELAYMSG <channel> <sanitised username + decoration> :<text>, the text of an action
\* wrapped as \x01ACTION <text>\x01 and that of any other message sent as it is.
C16_RelaySpoofedNickIsDecorated ==
    (SendCalled /\ usernameDecoration # <<>>) =>
        LET head == RELAYMSG \o BareChannel(CalledChannel) \o <<" ">>
                       \o sanitiseNickname(CalledMsg.Username) \o usernameDecoration
                       \o <<" ", ":">>
        IN  \A i \in 1..Len(Sent) :
               /\ StartsWith(Sent[i], head)
               /\ LET text == After(Sent[i], head)
                  IN  IF CalledMsg.IsAction
                      THEN /\ StartsWith(text, <<CTCP>> \o CtcpAction)
                           /\ text[Len(text)] = CTCP
                           /\ Len(text) >= 9
                      ELSE \A j \in 1..Len(text) : text[j] # CTCP

\* C17: with an empty decoration every line goes out as PRIVMSG <channel> :<nick> <text>
\* with nick the sanitised username, and no RELAYMSG is issued.
C17_FallbackIsBracketedPrivmsg ==
    (SendCalled /\ usernameDecoration = <<>>) =>
        LET head == PRIVMSG \o BareChannel(CalledChannel) \o <<" ", ":", "<">>
                       \o sanitiseNickname(CalledMsg.Username) \o <<">", " ">>
        IN  \A i \in 1..Len(Sent) :
               /\ StartsWith(Sent[i], head)
               /\ ~StartsWith(Sent[i], RELAYMSG)

\* C18: a content with k newlines, from an author who is bridged, produces k+1 sends, all
\* to the channel argument cut at its first space; the i-th send is the head all sends of
\* the call share followed by the i-th piece of the content alone, and holds no newline.
C18_OneSendPerLine ==
    (SendCalled /\ ~ircIgnoredDiscord(CalledMsg.AuthorID)) =>
        LET content == CalledMsg.Content
            k == NewlinesBefore(content, Len(content))
            closing == IF IsUsingRelayMsg /\ CalledMsg.IsAction THEN <<CTCP>> ELSE <<>>
            opening == IF ~IsUsingRelayMsg THEN <<">", " ">>
                       ELSE IF CalledMsg.IsAction THEN <<":", CTCP>> \o CtcpAction
                       ELSE <<":">>
            headLen(i) == Len(Sent[i]) - Len(Piece(content, i) \o closing)
        IN  /\ Len(Sent) = k + 1
            /\ \A i \in 1..Len(Sent) :
                  /\ \/ StartsWith(Sent[i], RELAYMSG \o BareChannel(CalledChannel) \o <<" ">>)
                     \/ StartsWith(Sent[i], PRIVMSG \o BareChannel(CalledChannel) \o <<" ">>)
                  /\ HasSuffix(Sent[i], opening \o Piece(content, i) \o closing)
                  /\ SubSeq(Sent[i], 1, headLen(i)) = SubSeq(Sent[1], 1, headLen(1))
                  /\ \A j \in 1..Len(Sent[i]) : Sent[i][j] # "\n"

\* "a", newline, "b" sent for Bob to "#b k" with the decoration "/d": two RELAYMSG sends
C18_Witness ==
    /\ SendCalled
    /\ CalledChannel = <<"#", "b", " ", "k">>
    /\ CalledMsg.AuthorID = "u1"
    /\ CalledMsg.Content = <<"a", "\n", "b">>
    /\ usernameDecoration = <<"/", "d">>
    /\ Len(Sent) = 2
    /\ HasSuffix(Sent[1], <<":", "a">>)
    /\ HasSuffix(Sent[2], <<":", "b">>)

(***************************************************************************)
(* The opened bridge under a configuration file that sets one of the       *)
(* filter lists                                                            *)
(***************************************************************************)
\* Bridge.Open has returned: the handshake is over and setupCaps has run
InitFilter ==
    /\ phase = "running"
    /\ \E t \in RouterTables : \E ord \in IterationOrders(t) :
          /\ arg = t
          /\ mappings = ParseEntries(ord, <<>>, {}).mappings
          /\ ircChannelKeys = ParseEntries(ord, <<>>, {}).ircChannelKeys
          /\ ~HasDuplicate(mappings)
    /\ err = "nil"
    /\ ircOut = <<>>
    /\ puppeteerSource \in {"part_000", "irc_puppeteer.go"}
    /\ \E file \in ConfigFiles : config = LoadConfigInto(file)
    /\ openPc = "open"
    /\ caps \in Handshakes
    /\ usernameDecoration = setupCaps(<<>>, caps)
    /\ listenerPc = "idle"
    /\ listenerMsg = NoMessage
    /\ ircSeen = 0
    /\ handoff = {}
    /\ discordSeen = 0
    /\ discordInbox = {}
    /\ loopPc = "select"
    /\ dispatched = NoEvent
    /\ received = <<>>
    /\ inflight = {}
    /\ closerPc = "idle"
    /\ doneClosed = FALSE
    /\ closed = {}
    /\ failed = {}
    /\ pending = NoPending
    /\ observed = NoObservation
    /\ applied = NoApplication

\* the listener, the senders of Discord events and the loop; Close is not called
NextFilter ==
    \/ OnPrivateMessage
    \/ OnJoinQuitCallback
    \/ SubmitDiscordEvent
    \/ DispatchIRCHandoff
    \/ DispatchIRCListener
    \/ SystemSendReturns
    \/ SendAsReturns
    \/ DispatchDiscord

SpecFilter == InitFilter /\ [][NextFilter]_vars

(***************************************************************************)
(* Properties of the filter lists                                          *)
(***************************************************************************)
\* a pattern of the list, as the configuration file writes it, matches the text
Listed(patterns, text) == \E i \in 1..Len(patterns) : GlobMatch(patterns[i], text)

\* the hostmask of the event is in IRCIgnores or its text is in IRCFilteredMessages
IgnoredOrFiltered(e) ==
    \/ Listed(config.file.IRCIgnores, e.Source)
    \/ Listed(config.file.IRCFilteredMessages, EventMessage(e))

\* C19: an IRC channel message whose hostmask matches a pattern of IRCIgnores, or whose text
\* matches a pattern of IRCFilteredMessages, is never handed to the dispatcher and is never
\* what the dispatcher forwards to Discord.
C19_IgnoredOrFilteredIRCSuppressed ==
    /\ \A g \in handoff : ~IgnoredOrFiltered(g.event)
    /\ (dispatched.src = "irc" /\ dispatched.irc.Username # <<>>) =>
          /\ ~Listed(config.file.IRCIgnores, dispatched.irc.Username \o <<"!", "u", "@", "h">>)
          /\ ~Listed(config.file.IRCFilteredMessages, dispatched.irc.Message)

\* with IRCIgnores = ["al!*"], the callback has run on al's channel message and nothing
\* was handed off
C19_Witness ==
    /\ config.file.IRCIgnores = << <<"a", "l", "!", "*">> >>
    /\ listenerPc = "panicked"
    /\ listenerMsg = [IRCChannel |-> <<"#", "A">>, Username |-> Al, Message |-> <<"m">>]
    /\ ircSeen > 0
    /\ handoff = {}

\* C20: dispatching a Discord message whose content matches a pattern of
\* DiscordFilteredMessages sends no RELAYMSG and no PRIVMSG.
C20_FilteredDiscordSuppressed ==
    (/\ dispatched.src = "discord"
     /\ Listed(config.file.DiscordFilteredMessages, dispatched.discord.Content))
        => dispatched.lines = <<>>

(***************************************************************************)
(* Properties of the delivery to Discord                                   *)
(***************************************************************************)
\* C21: an IRC message dispatched for a mapped channel causes exactly one Discord call, to
\* the Discord channel of that mapping: ChannelMessageSend by the loop itself when the
\* username is empty, and otherwise one send-as goroutine whose allowed mentions are roles
\* and users only.
C21_OneDeliveryPerMappedIRCMessage ==
    (dispatched.src = "irc" /\ ~Unmapped(dispatched)) =>
        /\ \E m \in Range(mappings) :
              /\ EqualFold(m.IRCChannel, dispatched.irc.IRCChannel)
              /\ dispatched.call.channel = m.DiscordChannel
        /\ dispatched.irc.Username = <<>> =>
              /\ dispatched.call.api = "ChannelMessageSend"
              /\ \A w \in inflight : w.seq # dispatched.seq
        /\ dispatched.irc.Username # <<>> =>
              /\ dispatched.call.api = "transmitter.Send"
              /\ dispatched.call.mentions = {"roles", "users"}
              /\ Cardinality({ w \in inflight : w.seq = dispatched.seq }) <= 1
              /\ \A w \in inflight : w.seq = dispatched.seq => w.call = dispatched.call
              /\ loopPc # "system_send"
        /\ Cardinality({ i \in 1..Len(received) : received[i].seq = dispatched.seq }) = 1

\* al's message in #A has been dispatched and its send-as goroutine is running
C21_Witness ==
    /\ dispatched.src = "irc"
    /\ dispatched.irc.Username = Al
    /\ dispatched.call.api = "transmitter.Send"
    /\ dispatched.call.channel = "X"
    /\ \E w \in inflight : w.seq = dispatched.seq

(***************************************************************************)
(* The text functions on their own: sanitiseNickname, and the content the  *)
(* loop builds for Discord, on every input up to a bound                   *)
(***************************************************************************)
\* the longest nickname and the longest IRC message, in characters
MaxNickLen == 3
MaxMessageLen == 5

RECURSIVE StringsOfLen(_, _)
StringsOfLen(chars, n) ==
    IF n = 0 THEN { <<>> }
    ELSE { <<c>> \o rest : c \in chars, rest \in StringsOfLen(chars, n - 1) }
StringsUpTo(chars, n) == UNION { StringsOfLen(chars, k) : k \in 0..n }

\* nicknames: a letter, the characters sanitiseNickname treats specially, and characters
\* outside ASCII with and without a transliteration
NickChars == {"a", "-", "1", " ", "~", "_", "e'", "(red)"}
\* IRC messages: spaces, colons, names in the emoji cache (s static, x animated; S in upper
\* case) and a name that is not in it
MessageChars == {" ", ":", "s", "S", "x", "-"}

\* sanitiseNickname(nick), and sanitiseNickname of what it returned
CallSanitiseNickname ==
    /\ applied.fn = "sanitiseNickname"
    /\ ~applied.returned
    /\ applied' = [applied EXCEPT !.returned = TRUE,
                                  !.output = sanitiseNickname(applied.input),
                                  !.again = sanitiseNickname(sanitiseNickname(applied.input))]
    /\ UNCHANGED <<storeVars, ircOut, routerVars, reloadVars>>

\* Bridge.loop: content := msg.Message, the zero-width wrapping, then the emoji replacement
BuildContent ==
    /\ applied.fn = "content"
    /\ ~applied.returned
    /\ applied' = [applied EXCEPT !.returned = TRUE,
                                  !.wrapped = WrapWhitespace(applied.input),
                                  !.output = ReplaceEmoji(WrapWhitespace(applied.input))]
    /\ UNCHANGED <<storeVars, ircOut, routerVars, reloadVars>>

InitText ==
    /\ phase = "running"
    /\ arg = {}
    /\ mappings = <<>>
    /\ ircChannelKeys = {}
    /\ err = "nil"
    /\ ircOut = <<>>
    /\ puppeteerSource = "part_000"
    /\ config = LoadConfigInto(NoFilters)
    /\ openPc = "created"
    /\ caps = [acknowledged |-> FALSE, reserved |-> <<>>]
    /\ usernameDecoration = <<>>
    /\ listenerPc = "idle"
    /\ listenerMsg = NoMessage
    /\ ircSeen = 0
    /\ handoff = {}
    /\ discordSeen = 0
    /\ discordInbox = {}
    /\ loopPc = "select"
    /\ dispatched = NoEvent
    /\ received = <<>>
    /\ inflight = {}
    /\ closerPc = "idle"
    /\ doneClosed = FALSE
    /\ closed = {}
    /\ failed = {}
    /\ pending = NoPending
    /\ observed = NoObservation
    /\ \/ \E nick \in StringsUpTo(NickChars, MaxNickLen) :
             applied = [NoApplication EXCEPT !.fn = "sanitiseNickname", !.input = nick]
       \/ \E message \in StringsUpTo(MessageChars, MaxMessageLen) :
             applied = [NoApplication EXCEPT !.fn = "content", !.input = message]

NextText ==
    \/ CallSanitiseNickname
    \/ BuildContent

SpecText == InitText /\ [][NextText]_vars

(***************************************************************************)
(* Properties of the text functions                                        *)
(***************************************************************************)
\* C22: for every nickname, the empty one included, sanitiseNickname returns a non-empty
\* result, and sanitiseNickname of that result is the result itself.
C22_SanitiseIdempotentNonEmpty ==
    (applied.fn = "sanitiseNickname" /\ applied.returned) =>
        /\ applied.output # <<>>
        /\ applied.again = applied.output

\* sanitiseNickname has returned "_" for the empty nickname
C22_Witness ==
    /\ applied.fn = "sanitiseNickname"
    /\ applied.returned
    /\ applied.input = <<>>
    /\ applied.output = <<"_">>
    /\ applied.again = <<"_">>

\* the content is empty, or starts or ends with white space
Padded(content) ==
    \/ content = <<>>
    \/ content[1] \in {" ", "\t", "\n", "\r"}
    \/ content[Len(content)] \in {" ", "\t", "\n", "\r"}

\* C23: the wrapping step puts one zero-width space before and one after the content
\* exactly when the content is empty or differs from its trimmed form, and returns every
\* other content as it is.
C23_WrapExactlyWhenPadded ==
    (applied.fn = "content" /\ applied.returned) =>
        /\ Padded(applied.input) => applied.wrapped = <<ZWSP>> \o applied.input \o <<ZWSP>>
        /\ ~Padded(applied.input) => applied.wrapped = applied.input

\* three spaces have become ZWSP, three spaces, ZWSP
C23_Witness ==
    /\ applied.fn = "content"
    /\ applied.returned
    /\ applied.input = <<" ", " ", " ">>
    /\ applied.wrapped = <<ZWSP, " ", " ", " ", ZWSP>>

\* the position of the colon that closes a :name: token opening at position i, 0 when no
\* token opens there
TokenEnd(s, i) ==
    IF s[i] = ":" /\ \E j \in (i + 2)..Len(s) :
                        s[j] = ":" /\ \A k \in (i + 1)..(j - 1) : s[k] \in Letters \cup {"_", "-"}
    THEN CHOOSE j \in (i + 2)..Len(s) :
            s[j] = ":" /\ \A k \in (i + 1)..(j - 1) : s[k] \in Letters \cup {"_", "-"}
    ELSE 0

\* the platform markup of a cache entry
Markup(e) == IF e.Animated THEN <<"<", "a", ":">> \o e.Name \o <<":">> \o e.ID \o <<">">>
             ELSE <<"<", ":">> \o e.Name \o <<":">> \o e.ID \o <<">">>

RECURSIVE Substituted(_)
\* the text with its tokens, taken from the left, replaced when the cache knows the
\* lower-cased name
Substituted(s) ==
    LET opens == { i \in 1..Len(s) : TokenEnd(s, i) # 0 }
    IN  IF opens = {} THEN s
        ELSE LET i == CHOOSE o \in opens : \A q \in opens : o <= q
                 j == TokenEnd(s, i)
                 hits == { e \in Emoji : e.key = [k \in 1..(j - i - 1) |-> Lower(s[i + k])] }
             IN  SubSeq(s, 1, i - 1)
                   \o (IF hits = {} THEN SubSeq(s, i, j) ELSE Markup(CHOOSE e \in hits : TRUE))
                   \o Substituted(SubSeq(s, j + 1, Len(s)))

\* C24: the emoji step replaces every :name: token whose lower-cased name is in the cache
\* by <:name:id>, or <a:name:id> for an animated entry, and leaves tokens that are not in
\* the cache and all other text as they are.
C24_EmojiTokensSubstituted ==
    (applied.fn = "content" /\ applied.returned) => applied.output = Substituted(applied.wrapped)

\* "s :S:" has become "s <:s:42>"
C24_Witness ==
    /\ applied.fn = "content"
    /\ applied.returned
    /\ applied.input = <<"s", " ", ":", "S", ":">>
    /\ applied.output = <<"s", " ", "<", ":", "s", ":", "4", "2", ">">>

(***************************************************************************)
(* Properties of the listener                                              *)
(***************************************************************************)
\* a channel message in a mapped channel whose sender is not the bridge's own nick, not an
\* ignored hostmask, not carrying filtered text and, when relay-spoofing is in use, not a
\* nick that ends with the decoration
Eligible(e) ==
    /\ e.Arguments[1][1] = "#"
    /\ \E m \in Range(mappings) : EqualFold(m.IRCChannel, e.Arguments[1])
    /\ e.Nick # IRCBotNick
    /\ ~Listed(config.file.IRCIgnores, e.Source)
    /\ ~Listed(config.file.IRCFilteredMessages, EventMessage(e))
    /\ usernameDecoration # <<>> => ~HasSuffix(e.Nick, usernameDecoration)

\* C25: once Open has returned, in both identity modes (decoration negotiated, or empty),
\* OnPrivateMessage hands every eligible channel message to the dispatcher, which builds a
\* Discord call for it.
C25_EligibleMessageForwardedInBothModes ==
    openPc = "open" =>
        \A e \in PrivateMessageEvents :
            Eligible(e) =>
                /\ OnPrivateMessageMsg(e).send
                /\ IRCToDiscord([IRCChannel |-> OnPrivateMessageMsg(e).IRCChannel,
                                 Username |-> OnPrivateMessageMsg(e).Username,
                                 Message |-> OnPrivateMessageMsg(e).Message]).api # "none"

\* the event the listener gets when the server presents a line of the bridge back to it:
\* a RELAYMSG comes back as a PRIVMSG of the spoofed nick, a PRIVMSG as one of the
\* bridge's own nick
EchoOf(line) ==
    LET fields == Split(line, " ")
    IN  IF StartsWith(line, RELAYMSG)
        THEN IRCEvent("PRIVMSG", fields[3],
                      <<fields[2], After(line, RELAYMSG \o fields[2] \o <<" ">> \o fields[3]
                                                  \o <<" ", ":">>)>>)
        ELSE IRCEvent("PRIVMSG", IRCBotNick,
                      <<fields[2], After(line, PRIVMSG \o fields[2] \o <<" ", ":">>)>>)

\* C26: no line the bridge sent to IRC for a Discord author, when the server presents it
\* back to the listener, is handed to the dispatcher by OnPrivateMessage.
C26_OwnRelaysNotEchoed ==
    dispatched.src = "discord" =>
        \A i \in 1..Len(dispatched.lines) :
            ~OnPrivateMessageMsg(EchoOf(dispatched.lines[i])).send

(***************************************************************************)
(* New, Open and the callbacks that join the channels                      *)
(***************************************************************************)
\* how many times the server sends 001 or 900
MaxJoins == 2

\* ircListener.JoinChannels: the JOIN line built from Config.ChannelMappings, iterated in
\* the order ord, and the key table
JoinChannels(ord) ==
    LET isKeyed(c) == \E k \in ircChannelKeys : k.channel = c
        keyOf(c) == (CHOOSE k \in ircChannelKeys : k.channel = c).key
        keyed == SelectSeq(ord, LAMBDA e : isKeyed(e.irc))
        plain == SelectSeq(ord, LAMBDA e : ~isKeyed(e.irc))
    IN  JOIN \o Join([i \in 1..Len(keyed \o plain) |-> (keyed \o plain)[i].irc], <<",">>)
             \o <<" ">> \o Join([i \in 1..Len(keyed) |-> keyOf(keyed[i].irc)], <<",">>)

\* bridge.New: load calls SetChannelMappings(opts.ChannelMappings) and then sets
\* opts.ChannelMappings, the Config the bridge keeps, to nil
NewBridge ==
    /\ phase = "new"
    /\ \E ord \in IterationOrders(config.ChannelMappings) : SetChannelMappings(ord)
    /\ phase' = IF err' = "nil" THEN "running" ELSE "failed"
    /\ config' = IF err' = "nil" THEN [config EXCEPT !.ChannelMappings = {}] ELSE config
    /\ UNCHANGED <<puppeteerSource, openPc, caps, usernameDecoration, listenerPc, listenerMsg,
                   ircSeen, handoff, discordSeen, discordInbox, loopPc, dispatched, received,
                   inflight, closerPc, doneClosed, closed, failed>>
    /\ UNCHANGED <<reloadVars, applied>>

\* the callbacks of 001 (OnWelcome) and 900: JoinChannels sends its JOIN line
OnWelcome ==
    /\ openPc \in {"irc_connected", "open"}
    /\ Len(ircOut) < MaxJoins
    /\ \E ord \in IterationOrders(config.ChannelMappings) :
          ircOut' = Append(ircOut, JoinChannels(ord))
    /\ UNCHANGED <<storeVars, routerVars, reloadVars, applied>>

InitJoin ==
    /\ phase = "new"
    /\ mappings = <<>>
    /\ ircChannelKeys = {}
    /\ arg = {}
    /\ err = "nil"
    /\ ircOut = <<>>
    /\ puppeteerSource \in {"part_000", "irc_puppeteer.go"}
    /\ \E t \in ReloadTables :
          config = LoadConfigInto([NoFilters EXCEPT !.ChannelMappings = t])
    /\ Created

NextJoin ==
    \/ NewBridge
    \/ OpenDiscord
    \/ ConnectIRC
    \/ SetupCaps
    \/ OnWelcome

SpecJoin == InitJoin /\ [][NextJoin]_vars

(***************************************************************************)
(* Properties of joining                                                   *)
(***************************************************************************)
\* the channels a JOIN line names, and the key it gives for the j-th of them ("" if none)
JoinNames(line) == Split(Split(After(line, JOIN), " ")[1], ",")
JoinKey(line, j) ==
    LET fields == Split(After(line, JOIN), " ")
        keys == IF Len(fields) >= 2 THEN Split(fields[2], ",") ELSE <<>>
    IN  IF j <= Len(keys) THEN keys[j] ELSE <<>>

\* C27: every JOIN line the listener sends on the welcome event, or after NickServ
\* authentication, names every IRC channel of the mapping set loaded at construction,
\* each keyed channel with its key.
C27_WelcomeJoinsLoadedChannels ==
    phase = "running" =>
        \A i \in 1..Len(ircOut) :
            StartsWith(ircOut[i], JOIN) =>
                \A m \in Range(mappings) :
                    \E j \in 1..Len(JoinNames(ircOut[i])) :
                        /\ JoinNames(ircOut[i])[j] = m.IRCChannel
                        /\ \A k \in ircChannelKeys :
                              k.channel = m.IRCChannel => JoinKey(ircOut[i], j) = k.key

\* the channels that the lines starting with the given command name
Told(lines, command) ==
    UNION { { Split(After(lines[i], command), ",")[j] :
                 j \in 1..Len(Split(After(lines[i], command), ",")) } :
            i \in { n \in 1..Len(lines) : StartsWith(lines[n], command) } } \ { <<>> }

\* C28: every successful SetChannelMappings call on the running bridge keeps the channels
\* the bridge was told to JOIN and not since told to PART equal to the IRC channels of the
\* mapping set: the channels of the new set are those of the old set, less the ones the
\* call PARTs, plus the ones it JOINs.
C28_JoinedChannelsTrackMappings ==
    [][(phase = "running" /\ err' = "nil") =>
          { mappings'[i].IRCChannel : i \in 1..Len(mappings') }
             = ({ mappings[i].IRCChannel : i \in 1..Len(mappings) } \ Told(ircOut', PART))
                  \cup Told(ircOut', JOIN)]_vars

(***************************************************************************)
(* Properties of a repeated Close                                          *)
(***************************************************************************)
\* C29: a call of Close made after an earlier Close has returned does not crash: it never
\* sends on the channel that the loop has closed.
C29_SecondCloseIsSafe == closerPc # "panicked"

====
